---- MODULE Spec2Model ----
(***************************************************************************)
(* HomeStand: the RSVP reservation engine (SourceCode/RSVP_API.py) and the *)
(* Event Directory (SourceCode/EventsAPI.py) over a document store with    *)
(* optimistic transactions.                                                *)
(*                                                                         *)
(* The store keeps two collections, events and rsvps.  A call of           *)
(* create_rsvp or cancel_rsvp runs on one server worker; several workers   *)
(* run calls concurrently.  A call is a sequence of store round trips;     *)
(* each round trip is one step of the model.  A @transactional body reads  *)
(* its documents, buffers its writes and commits them atomically; the      *)
(* commit is refused when a document the body has read was written in      *)
(* between, and the body is then run again, up to MaxAttempts times.       *)
(***************************************************************************)
EXTENDS Integers, Sequences, FiniteSets, TLC

\* ---------------------------------------------------------------- bounds
NumProcs    == 3    \* server workers racing in SpecCreate
NumWorkers  == 2    \* server workers serving requests in the other specifications
MaxCalls    == 4    \* calls started in one behaviour
MaxCap      == 2    \* largest capacity an event is given
MaxTime     == 3    \* the clock runs 1..MaxTime
MaxAttempts == 2    \* attempts the store gives one transaction body
MaxRsvps    == 3    \* rsvps documents in the stores the queries are tried on
MaxEvents   == 4    \* event documents in the stores the listings are tried on

Procs    == 1..(IF NumProcs > NumWorkers THEN NumProcs ELSE NumWorkers)
Racers   == 1..NumProcs
Workers  == 1..NumWorkers
Users    == {"A", "B", "C"}
Owner    == "O"
EventIds == {"E1"}
Times    == 1..MaxTime

\* A field a document does not carry (dict.get returns its default / None).
Absent == 0 - 1

\* A key an updates dict does not carry.
NoKey == 0 - 2

Get(v, default) == IF v = Absent THEN default ELSE v

\* ---------------------------------------------------------------- state
VARIABLES
    events,   \* collection "events": event id -> document
    rsvps,    \* collection "rsvps": the documents in creation order; the id is the index
    now,      \* the clock read by datetime.utcnow()
    calls,    \* per worker: the call it runs and that call's local variables
    ncalls    \* calls of the two APIs started so far

vars == <<events, rsvps, now, calls, ncalls>>

\* An event id under which the store holds no document.
NoEvent ==
    [exists |-> FALSE, capacity |-> Absent, rsvp_count |-> Absent,
     start_time |-> Absent, created_by |-> "", published |-> FALSE,
     created_at |-> Absent, updated_at |-> Absent]

IdleCall ==
    [pc |-> "idle", op |-> "", user |-> "", event |-> "", rsvp |-> 0,
     capacity |-> 0, rsvp_count |-> 0, snap_count |-> 0, snap_exists |-> FALSE,
     stale |-> FALSE, attempt |-> 0, result |-> "", entries |-> <<>>,
     args |-> <<>>, next_id |-> Absent, seen |-> <<>>]

Init ==
    /\ events \in [EventIds -> {[exists |-> TRUE, capacity |-> c, rsvp_count |-> 0,
                                 start_time |-> 2, created_by |-> Owner,
                                 published |-> TRUE, created_at |-> 1,
                                 updated_at |-> 1] : c \in 1..MaxCap}]
    /\ rsvps = <<>>
    /\ now = 1
    /\ calls = [p \in Procs |-> IdleCall]
    /\ ncalls = 0

\* ---------------------------------------------------------------- helpers
\* A call that has returned or raised: its arguments, its outcome and the number
\* of attempts its transaction took remain.
Finish(c, res) ==
    [IdleCall EXCEPT !.pc = "done", !.op = c.op, !.user = c.user,
                     !.event = c.event, !.rsvp = c.rsvp, !.attempt = c.attempt,
                     !.result = res]

\* The ids of the rsvps documents matching the three equality filters.
ActiveRsvps(rs, u, e) ==
    {i \in 1..Len(rs) : rs[i].user_id = u /\ rs[i].event_id = e /\ rs[i].status = "active"}

\* CapacityReached with the comparison off by one.
CapacityExceeded(rsvp_count, capacity) == Get(rsvp_count, 0) > Get(capacity, 0)

\* rsvp_count >= capacity, each read with dict.get(key, 0).
CapacityReached(rsvp_count, capacity) == Get(rsvp_count, 0) >= Get(capacity, 0)

\* The worker runs no call: it has served none yet, or its last one has ended.
Free(c) == c.pc \in {"idle", "done"}

\* A transaction has read its documents and not yet committed.
InTxn(c) == c.pc \in {"cr_commit", "cn_commit"}

\* The store's conflict detection: a write to event documents evs and rsvps
\* documents rs invalidates every open transaction that has read one of them.
MarkStale(cs, evs, rs) ==
    [q \in Procs |->
        IF /\ InTxn(cs[q])
           /\ \/ cs[q].event \in evs
              \/ cs[q].op = "cancel" /\ cs[q].rsvp \in rs
        THEN [cs[q] EXCEPT !.stale = TRUE]
        ELSE cs[q]]

\* ---------------------------------------------------------------- create_rsvp
\* create_rsvp(db, event_id, user_id), lines 40-49: read the event document.
CallCreate(p, u, e) ==
    /\ Free(calls[p])
    /\ ncalls < MaxCalls
    /\ ncalls' = ncalls + 1
    /\ LET c == [IdleCall EXCEPT !.op = "create", !.user = u, !.event = e] IN
       calls' = [calls EXCEPT ![p] =
           IF ~events[e].exists
           THEN Finish(c, "EventNotFound")
           ELSE [c EXCEPT !.pc = "cr_query",
                          !.capacity = Get(events[e].capacity, 0),
                          !.rsvp_count = Get(events[e].rsvp_count, 0)]]
    /\ UNCHANGED <<events, rsvps, now>>

\* CreateQuery with the two guards in the other order: capacity first.
CreateQueryCapacityFirst(p) ==
    /\ calls[p].pc = "cr_query"
    /\ LET c == calls[p] IN
       calls' = [calls EXCEPT ![p] =
           IF CapacityReached(c.rsvp_count, c.capacity)
           THEN Finish(c, "EventFull")
           ELSE IF ActiveRsvps(rsvps, c.user, c.event) # {}
           THEN Finish(c, "RSVPAlreadyExists")
           ELSE [c EXCEPT !.pc = "cr_txn", !.attempt = 1,
                          !.capacity = 0, !.rsvp_count = 0]]
    /\ UNCHANGED <<events, rsvps, now, ncalls>>

\* Lines 51-65: the duplicate query, then the capacity pre-check on the values
\* read by CallCreate.
CreateQuery(p) ==
    /\ calls[p].pc = "cr_query"
    /\ LET c == calls[p] IN
       calls' = [calls EXCEPT ![p] =
           IF ActiveRsvps(rsvps, c.user, c.event) # {}
           THEN Finish(c, "RSVPAlreadyExists")
           ELSE IF CapacityReached(c.rsvp_count, c.capacity)
           THEN Finish(c, "EventFull")
           ELSE [c EXCEPT !.pc = "cr_txn", !.attempt = 1,
                          !.capacity = 0, !.rsvp_count = 0]]
    /\ UNCHANGED <<events, rsvps, now, ncalls>>

\* CreateTxnRead without the capacity re-check: the pre-check's verdict stands.
CreateTxnReadNoRecheck(p) ==
    /\ calls[p].pc = "cr_txn"
    /\ LET c  == calls[p]
           ev == events[c.event] IN
       calls' = [calls EXCEPT ![p] =
           IF ~ev.exists
           THEN Finish(c, "EventNotFound")
           ELSE [c EXCEPT !.pc = "cr_commit", !.stale = FALSE,
                          !.snap_count = Get(ev.rsvp_count, 0)]]
    /\ UNCHANGED <<events, rsvps, now, ncalls>>

\* CreateTxnRead without the check that the event read in the transaction
\* exists.
CreateTxnReadUnchecked(p) ==
    /\ calls[p].pc = "cr_txn"
    /\ LET c  == calls[p]
           ev == events[c.event] IN
       calls' = [calls EXCEPT ![p] =
           IF CapacityReached(ev.rsvp_count, ev.capacity)
           THEN Finish(c, "EventFull")
           ELSE [c EXCEPT !.pc = "cr_commit", !.stale = FALSE,
                          !.snap_count = Get(ev.rsvp_count, 0)]]
    /\ UNCHANGED <<events, rsvps, now, ncalls>>

\* txn_op, lines 71-94: re-read the event inside the transaction, re-check,
\* buffer the two writes.
CreateTxnRead(p) ==
    /\ calls[p].pc = "cr_txn"
    /\ LET c  == calls[p]
           ev == events[c.event] IN
       calls' = [calls EXCEPT ![p] =
           IF ~ev.exists
           THEN Finish(c, "EventNotFound")
           ELSE IF CapacityReached(ev.rsvp_count, ev.capacity)
           THEN Finish(c, "EventFull")
           ELSE [c EXCEPT !.pc = "cr_commit", !.stale = FALSE,
                          !.snap_count = Get(ev.rsvp_count, 0)]]
    /\ UNCHANGED <<events, rsvps, now, ncalls>>

\* The rsvps document txn_op writes, lines 82-87.
NewRsvp(c) == [user_id |-> c.user, event_id |-> c.event, status |-> "active"]

\* The event document after transaction.update(event_ref, {"rsvp_count": n + 1}).
Incremented(ev, snap_count) == [ev EXCEPT !.rsvp_count = snap_count + 1]

\* CreateTxnCommit without the store's conflict detection: the writes of a
\* stale body are committed as they are.
CreateTxnCommitBlind(p) ==
    /\ calls[p].pc = "cr_commit"
    /\ LET c == calls[p] IN
       /\ rsvps' = Append(rsvps, NewRsvp(c))
       /\ events' = [events EXCEPT ![c.event] = Incremented(events[c.event], c.snap_count)]
       /\ calls' = MarkStale(
              [calls EXCEPT ![p] = Finish([c EXCEPT !.rsvp = Len(rsvps) + 1], "ok")],
              {c.event}, {})
    /\ UNCHANGED <<now, ncalls>>

\* CreateTxnCommit with the rsvps document written at once instead of buffered:
\* an attempt that meets a conflict leaves its document behind.
CreateTxnCommitUnbuffered(p) ==
    /\ calls[p].pc = "cr_commit"
    /\ LET c == calls[p] IN
       IF c.stale
       THEN /\ calls' = [calls EXCEPT ![p] =
                  IF c.attempt < MaxAttempts
                  THEN [c EXCEPT !.pc = "cr_txn", !.attempt = c.attempt + 1,
                                 !.stale = FALSE, !.snap_count = 0]
                  ELSE Finish(c, "TxnFailed")]
            /\ rsvps' = Append(rsvps, NewRsvp(c))
            /\ UNCHANGED events
       ELSE /\ rsvps' = Append(rsvps, NewRsvp(c))
            /\ events' = [events EXCEPT ![c.event] = Incremented(events[c.event], c.snap_count)]
            /\ calls' = MarkStale(
                   [calls EXCEPT ![p] = Finish([c EXCEPT !.rsvp = Len(rsvps) + 1], "ok")],
                   {c.event}, {})
    /\ UNCHANGED <<now, ncalls>>

\* CreateTxnCommit that turns the caller's cancelled document for the event
\* back to active, where there is one, instead of writing a new document.
CreateTxnCommitReusing(p) ==
    /\ calls[p].pc = "cr_commit"
    /\ LET c    == calls[p]
           old  == {i \in 1..Len(rsvps) : /\ rsvps[i].user_id = c.user
                                          /\ rsvps[i].event_id = c.event
                                          /\ rsvps[i].status = "cancelled"}
           id   == IF old = {} THEN Len(rsvps) + 1 ELSE CHOOSE i \in old : TRUE IN
       IF c.stale
       THEN /\ calls' = [calls EXCEPT ![p] =
                  IF c.attempt < MaxAttempts
                  THEN [c EXCEPT !.pc = "cr_txn", !.attempt = c.attempt + 1,
                                 !.stale = FALSE, !.snap_count = 0]
                  ELSE Finish(c, "TxnFailed")]
            /\ UNCHANGED <<events, rsvps>>
       ELSE /\ rsvps' = IF old = {} THEN Append(rsvps, NewRsvp(c))
                        ELSE [rsvps EXCEPT ![id].status = "active"]
            /\ events' = [events EXCEPT ![c.event] = Incremented(events[c.event], c.snap_count)]
            /\ calls' = MarkStale(
                   [calls EXCEPT ![p] = Finish([c EXCEPT !.rsvp = id], "ok")],
                   {c.event}, {})
    /\ UNCHANGED <<now, ncalls>>

\* CreateTxnCommit on a store that answers a conflict by making the caller
\* wait instead of running the body again or giving up.
CreateTxnCommitWaiting(p) ==
    /\ calls[p].pc = "cr_commit"
    /\ ~calls[p].stale
    /\ LET c == calls[p] IN
       /\ rsvps' = Append(rsvps, NewRsvp(c))
       /\ events' = [events EXCEPT ![c.event] = Incremented(events[c.event], c.snap_count)]
       /\ calls' = MarkStale(
              [calls EXCEPT ![p] = Finish([c EXCEPT !.rsvp = Len(rsvps) + 1], "ok")],
              {c.event}, {})
    /\ UNCHANGED <<now, ncalls>>

\* The commit of txn_op (line 99): both writes at once, or a conflict and
\* another attempt, or the store's failure after the last attempt.
CreateTxnCommit(p) ==
    /\ calls[p].pc = "cr_commit"
    /\ LET c == calls[p] IN
       IF c.stale
       THEN /\ calls' = [calls EXCEPT ![p] =
                  IF c.attempt < MaxAttempts
                  THEN [c EXCEPT !.pc = "cr_txn", !.attempt = c.attempt + 1,
                                 !.stale = FALSE, !.snap_count = 0]
                  ELSE Finish(c, "TxnFailed")]
            /\ UNCHANGED <<events, rsvps>>
       ELSE /\ rsvps' = Append(rsvps, NewRsvp(c))
            /\ events' = [events EXCEPT ![c.event] = Incremented(events[c.event], c.snap_count)]
            /\ calls' = MarkStale(
                   [calls EXCEPT ![p] = Finish([c EXCEPT !.rsvp = Len(rsvps) + 1], "ok")],
                   {c.event}, {})
    /\ UNCHANGED <<now, ncalls>>

\* ---------------------------------------------------------------- cancel_rsvp
\* NotOwner with the ownership check left out.
NotOwnerUnchecked(rsvp_user, u) == FALSE

\* Line 195: the caller is not the reservation's user.
NotOwner(rsvp_user, u) == rsvp_user # u

\* EventStarted with the comparison turned round.
EventNotYetStarted(start_time, t) == start_time # Absent /\ t < start_time

\* Lines 208-211: the event has a start_time and the clock is past it.
EventStarted(start_time, t) == start_time # Absent /\ t > start_time

\* CallCancel with the parent event looked up before the caller is compared
\* to the reservation's user.
CallCancelEventFirst(p, r, u) ==
    /\ Free(calls[p])
    /\ ncalls < MaxCalls
    /\ ncalls' = ncalls + 1
    /\ LET c == [IdleCall EXCEPT !.op = "cancel", !.user = u, !.rsvp = r] IN
       calls' = [calls EXCEPT ![p] =
           IF r \notin 1..Len(rsvps)
           THEN Finish(c, "RSVPNotFound")
           ELSE IF ~events[rsvps[r].event_id].exists
           THEN Finish([c EXCEPT !.event = rsvps[r].event_id], "EventNotFound")
           ELSE IF NotOwner(rsvps[r].user_id, u)
           THEN Finish(c, "CancellationNotAllowed")
           ELSE [c EXCEPT !.pc = "cn_event", !.event = rsvps[r].event_id]]
    /\ UNCHANGED <<events, rsvps, now>>

\* cancel_rsvp(db, rsvp_id, user_id), lines 185-198: read the reservation,
\* check that it exists and that the caller owns it.
CallCancel(p, r, u) ==
    /\ Free(calls[p])
    /\ ncalls < MaxCalls
    /\ ncalls' = ncalls + 1
    /\ LET c == [IdleCall EXCEPT !.op = "cancel", !.user = u, !.rsvp = r] IN
       calls' = [calls EXCEPT ![p] =
           IF r \notin 1..Len(rsvps)
           THEN Finish(c, "RSVPNotFound")
           ELSE IF NotOwner(rsvps[r].user_id, u)
           THEN Finish(c, "CancellationNotAllowed")
           ELSE [c EXCEPT !.pc = "cn_event", !.event = rsvps[r].event_id]]
    /\ UNCHANGED <<events, rsvps, now>>

\* Lines 199-212: read the parent event, check that it exists and has not started.
CancelGetEvent(p) ==
    /\ calls[p].pc = "cn_event"
    /\ LET c  == calls[p]
           ev == events[c.event] IN
       calls' = [calls EXCEPT ![p] =
           IF ~ev.exists
           THEN Finish(c, "EventNotFound")
           ELSE IF EventStarted(ev.start_time, now)
           THEN Finish(c, "CancellationNotAllowed")
           ELSE [c EXCEPT !.pc = "cn_txn", !.attempt = 1]]
    /\ UNCHANGED <<events, rsvps, now, ncalls>>

\* txn_op, lines 219-230: re-read the reservation and the event inside the
\* transaction and buffer the writes.
CancelTxnRead(p) ==
    /\ calls[p].pc = "cn_txn"
    /\ LET c  == calls[p]
           ev == events[c.event] IN
       calls' = [calls EXCEPT ![p] =
           IF c.rsvp \notin 1..Len(rsvps)
           THEN Finish(c, "RSVPNotFound")
           ELSE [c EXCEPT !.pc = "cn_commit", !.stale = FALSE,
                          !.snap_exists = ev.exists,
                          !.snap_count = IF ev.exists THEN Get(ev.rsvp_count, 0) ELSE 0]]
    /\ UNCHANGED <<events, rsvps, now, ncalls>>

\* Decremented without the floor at 0.
DecrementedUnfloored(ev, snap_count) == [ev EXCEPT !.rsvp_count = snap_count - 1]

\* Decremented with the counter left as it was read.
NotDecremented(ev, snap_count) == [ev EXCEPT !.rsvp_count = snap_count]

\* The event document after transaction.update(event_ref, {"rsvp_count": max(0, n - 1)}).
Decremented(ev, snap_count) ==
    [ev EXCEPT !.rsvp_count = IF snap_count - 1 > 0 THEN snap_count - 1 ELSE 0]

\* CancelTxnCommit without the store's conflict detection: the writes of a
\* stale body are committed as they are.
CancelTxnCommitBlind(p) ==
    /\ calls[p].pc = "cn_commit"
    /\ LET c == calls[p] IN
       /\ rsvps' = [rsvps EXCEPT ![c.rsvp].status = "cancelled"]
       /\ events' = IF c.snap_exists
                    THEN [events EXCEPT ![c.event] = Decremented(events[c.event], c.snap_count)]
                    ELSE events
       /\ calls' = MarkStale(
              [calls EXCEPT ![p] = Finish(c, "ok")],
              IF c.snap_exists THEN {c.event} ELSE {}, {c.rsvp})
    /\ UNCHANGED <<now, ncalls>>

\* The commit of txn_op (line 233): status and counter at once, or a conflict
\* and another attempt, or the store's failure after the last attempt.
CancelTxnCommit(p) ==
    /\ calls[p].pc = "cn_commit"
    /\ LET c == calls[p] IN
       IF c.stale
       THEN /\ calls' = [calls EXCEPT ![p] =
                  IF c.attempt < MaxAttempts
                  THEN [c EXCEPT !.pc = "cn_txn", !.attempt = c.attempt + 1,
                                 !.stale = FALSE, !.snap_count = 0, !.snap_exists = FALSE]
                  ELSE Finish(c, "TxnFailed")]
            /\ UNCHANGED <<events, rsvps>>
       ELSE /\ rsvps' = [rsvps EXCEPT ![c.rsvp].status = "cancelled"]
            /\ events' = IF c.snap_exists
                         THEN [events EXCEPT ![c.event] = Decremented(events[c.event], c.snap_count)]
                         ELSE events
            /\ calls' = MarkStale(
                   [calls EXCEPT ![p] = Finish(c, "ok")],
                   IF c.snap_exists THEN {c.event} ELSE {}, {c.rsvp})
    /\ UNCHANGED <<now, ncalls>>

\* ---------------------------------------------------------------- Event Directory
\* EnsureExistsAndOwner without the comparison of created_by to the caller.
EnsureExists(e, u) == IF ~events[e].exists THEN "EventNotFound" ELSE "ok"

\* _ensure_exists_and_owner(db, event_id, user_id): the error it raises, or "ok".
EnsureExistsAndOwner(e, u) ==
    IF ~events[e].exists THEN "EventNotFound"
    ELSE IF events[e].created_by # u THEN "PermissionDenied"
    ELSE "ok"

\* A worker's record of an Event Directory call.
DirCall(op, e, u) == [IdleCall EXCEPT !.op = op, !.user = u, !.event = e]

\* create_event(db, event_data, user_id, event_id), lines 58-69: the document
\* it builds carries neither capacity nor rsvp_count, whatever event_data holds.
NewEvent(data, u, t) ==
    [exists |-> TRUE, capacity |-> Absent, rsvp_count |-> Absent,
     start_time |-> data.start_time, created_by |-> u,
     published |-> data.published, created_at |-> t, updated_at |-> t]

\* Lines 72-75: doc_ref.set(doc) writes the document under the given id,
\* whether or not one is there; no check precedes it.
CreateEvent(p, e, data, u) ==
    /\ Free(calls[p])
    /\ ncalls < MaxCalls
    /\ ncalls' = ncalls + 1
    /\ events' = [events EXCEPT ![e] = NewEvent(data, u, now)]
    /\ calls' = MarkStale(
           [calls EXCEPT ![p] = [Finish(DirCall("create_event", e, u), "ok")
                                    EXCEPT !.args = data]],
           {e}, {})
    /\ UNCHANGED <<rsvps, now>>

\* Popped with nothing taken out of the dict.
NotPopped(updates) == updates

\* Lines 181-183: updates.pop("created_by"), updates.pop("created_at").
Popped(updates) == [updates EXCEPT !.created_by = "", !.created_at = NoKey]

\* doc_ref.update(updates): every key the dict carries replaces the
\* document's field.
ApplyUpdates(ev, updates) ==
    [ev EXCEPT !.capacity   = IF updates.capacity = NoKey THEN @ ELSE updates.capacity,
               !.start_time = IF updates.start_time = NoKey THEN @ ELSE updates.start_time,
               !.rsvp_count = IF updates.rsvp_count = NoKey THEN @ ELSE updates.rsvp_count,
               !.created_by = IF updates.created_by = "" THEN @ ELSE updates.created_by,
               !.created_at = IF updates.created_at = NoKey THEN @ ELSE updates.created_at]

\* updates["updated_at"] = _now_iso(), written with the other keys.
Touched(ev, t) == [ev EXCEPT !.updated_at = t]

\* update_event(db, event_id, updates, user_id): a plain write outside any
\* transaction; it invalidates the open transactions that have read the event.
UpdateEvent(p, e, updates, u) ==
    /\ Free(calls[p])
    /\ ncalls < MaxCalls
    /\ ncalls' = ncalls + 1
    /\ LET res == EnsureExistsAndOwner(e, u)
           c   == DirCall("update_event", e, u) IN
       IF res # "ok"
       THEN /\ calls' = [calls EXCEPT ![p] = Finish(c, res)]
            /\ UNCHANGED events
       ELSE /\ events' = [events EXCEPT ![e] =
                             Touched(ApplyUpdates(events[e], Popped(updates)), now)]
            /\ calls' = MarkStale([calls EXCEPT ![p] = Finish(c, "ok")], {e}, {})
    /\ UNCHANGED <<rsvps, now>>

\* publish_event (flag TRUE) and unpublish_event (flag FALSE):
\* doc_ref.update({"published": flag, "updated_at": _now_iso()}).
SetPublished(p, e, flag, u) ==
    /\ Free(calls[p])
    /\ ncalls < MaxCalls
    /\ ncalls' = ncalls + 1
    /\ LET res == EnsureExistsAndOwner(e, u)
           c   == DirCall(IF flag THEN "publish_event" ELSE "unpublish_event", e, u) IN
       IF res # "ok"
       THEN /\ calls' = [calls EXCEPT ![p] = Finish(c, res)]
            /\ UNCHANGED events
       ELSE /\ events' = [events EXCEPT ![e] =
                             Touched([events[e] EXCEPT !.published = flag], now)]
            /\ calls' = MarkStale([calls EXCEPT ![p] = Finish(c, "ok")], {e}, {})
    /\ UNCHANGED <<rsvps, now>>

\* delete_event(db, event_id, user_id): doc_ref.delete().
DeleteEvent(p, e, u) ==
    /\ Free(calls[p])
    /\ ncalls < MaxCalls
    /\ ncalls' = ncalls + 1
    /\ LET res == EnsureExistsAndOwner(e, u)
           c   == DirCall("delete_event", e, u) IN
       IF res # "ok"
       THEN /\ calls' = [calls EXCEPT ![p] = Finish(c, res)]
            /\ UNCHANGED events
       ELSE /\ events' = [events EXCEPT ![e] = NoEvent]
            /\ calls' = MarkStale([calls EXCEPT ![p] = Finish(c, "ok")], {e}, {})
    /\ UNCHANGED <<rsvps, now>>

\* The updates dicts of the edit form: capacity and start_time.
UpdateDicts ==
    [capacity : {NoKey} \cup (1..MaxCap), start_time : {NoKey} \cup Times,
     rsvp_count : {NoKey}, created_by : {""}, created_at : {NoKey}]

\* Updates dicts a caller of the API may pass: any of the document's keys.
AnyUpdateDicts ==
    [capacity : {NoKey, 0}, start_time : {NoKey},
     rsvp_count : {NoKey, 0}, created_by : {"", "A"}, created_at : {NoKey, MaxTime}]

\* The event_data of create_event: a start_time or none, published left at its
\* default, and the capacity the creation form puts into its payload.
EventData == [start_time : {Absent, MaxTime}, published : {FALSE}, capacity : {MaxCap}]

\* ---------------------------------------------------------------- queries
\* datetime.max, later than every start time.
DatetimeMax == MaxTime + 1

\* sort_key(item), lines 137-142: datetime.max, which carries no time zone,
\* for an event without start_time; otherwise the start_time parsed with its
\* "Z" read as +00:00, which carries one.
SortKey(item) ==
    IF item.event.start_time = Absent
    THEN [aware |-> FALSE, at |-> DatetimeMax]
    ELSE [aware |-> TRUE, at |-> item.event.start_time]

\* Lines 112-134: the user's active rsvps documents among the first n, each
\* with its event's document; those whose event is missing are skipped.
RECURSIVE Fetched(_, _, _, _)
Fetched(rs, evs, u, n) ==
    IF n = 0 THEN <<>>
    ELSE LET rest == Fetched(rs, evs, u, n - 1) IN
         IF /\ rs[n].user_id = u
            /\ rs[n].status = "active"
            /\ evs[rs[n].event_id].exists
         THEN Append(rest, [id |-> n, user_id |-> rs[n].user_id,
                            event_id |-> rs[n].event_id, status |-> rs[n].status,
                            event |-> evs[rs[n].event_id]])
         ELSE rest

\* sorted(results, key=sort_key): a stable sort by the keys.
RECURSIVE SortedByKey(_)
SortedByKey(items) ==
    IF items = <<>> THEN <<>>
    ELSE LET n    == Len(items)
             x    == items[n]
             done == SortedByKey(SubSeq(items, 1, n - 1))
             k    == Cardinality({i \in 1..Len(done) : SortKey(done[i]).at <= SortKey(x).at})
         IN SubSeq(done, 1, k) \o <<x>> \o SubSeq(done, k + 1, Len(done))

\* Comparing a datetime that carries a time zone with one that carries none
\* raises TypeError; a sort of keys of both kinds makes such a comparison.
Incomparable(items) ==
    \E i, j \in 1..Len(items) : SortKey(items[i]).aware # SortKey(items[j]).aware

\* get_user_rsvps(db, user_id).
GetUserRsvps(p, u) ==
    /\ Free(calls[p])
    /\ LET c       == [IdleCall EXCEPT !.op = "get_user_rsvps", !.user = u]
           results == Fetched(rsvps, events, u, Len(rsvps)) IN
       calls' = [calls EXCEPT ![p] =
           IF Incomparable(results)
           THEN Finish(c, "TypeError")
           ELSE [Finish(c, "ok") EXCEPT !.entries = SortedByKey(results)]]
    /\ UNCHANGED <<events, rsvps, now, ncalls>>

\* CheckUserRsvp without the filter on status.
CheckUserRsvpAnyStatus(rs, e, u) ==
    \E i \in 1..Len(rs) : rs[i].user_id = u /\ rs[i].event_id = e

\* check_user_rsvp, lines 166-173: the query with its three equality filters,
\* cut to one document by limit(1); len(existing) > 0.
CheckUserRsvp(rs, e, u) ==
    LET hits     == ActiveRsvps(rs, u, e)
        existing == IF hits = {} THEN {} ELSE {CHOOSE i \in hits : TRUE}
    IN Cardinality(existing) > 0

\* check_user_rsvp(db, event_id, user_id): a read; it returns True or False.
CallCheck(p, e, u) ==
    /\ Free(calls[p])
    /\ LET c == [IdleCall EXCEPT !.op = "check_user_rsvp", !.user = u, !.event = e] IN
       calls' = [calls EXCEPT ![p] =
           Finish(c, IF CheckUserRsvp(rsvps, e, u) THEN "True" ELSE "False")]
    /\ UNCHANGED <<events, rsvps, now, ncalls>>

\* ---------------------------------------------------------------- list_events
\* limit or 50, line 127.
DefaultLimit == 50

\* Document i comes before document j in order_by("created_at", "DESC"); the
\* store orders documents of equal created_at by name, in the same direction.
Before(evs, i, j) ==
    \/ evs[i].created_at > evs[j].created_at
    \/ evs[i].created_at = evs[j].created_at /\ i > j

\* Lines 119-122: the where clause on published, for True, False or None.
Matches(ev, published) ==
    /\ ev.exists
    /\ \/ published = "None"
       \/ published = "True" /\ ev.published
       \/ published = "False" /\ ~ev.published

\* The ids in S in query order.
RECURSIVE InOrder(_, _)
InOrder(evs, S) ==
    IF S = {} THEN <<>>
    ELSE LET first == CHOOSE i \in S : \A j \in S \ {i} : Before(evs, i, j)
         IN <<first>> \o InOrder(evs, S \ {first})

\* limit or 50: the default also stands in for a limit of 0.
EffectiveLimit(limit) == IF limit = Absent \/ limit = 0 THEN DefaultLimit ELSE limit

\* ListEvents with the cursor's own document on the page again (start_at).
ListEventsFromCursor(evs, published, limit, start_after) ==
    LET matching == {i \in DOMAIN evs : Matches(evs[i], published)}
        from     == IF start_after # Absent /\ evs[start_after].exists
                    THEN {i \in matching : i = start_after \/ Before(evs, start_after, i)}
                    ELSE matching
        all      == InOrder(evs, from)
        n        == EffectiveLimit(limit)
    IN SubSeq(all, 1, IF n < Len(all) THEN n ELSE Len(all))

\* Lines 116-134: the ids of the documents the query streams.
ListEvents(evs, published, limit, start_after) ==
    LET matching == {i \in DOMAIN evs : Matches(evs[i], published)}
        from     == IF start_after # Absent /\ evs[start_after].exists
                    THEN {i \in matching : Before(evs, start_after, i)}
                    ELSE matching
        all      == InOrder(evs, from)
        n        == EffectiveLimit(limit)
    IN SubSeq(all, 1, IF n < Len(all) THEN n ELSE Len(all))

\* Lines 136-138: the id of the last document returned, or None.
NextId(results) == IF results = <<>> THEN Absent ELSE results[Len(results)]

\* list_events(db, published, limit, start_after), called afresh.
CallListEvents(p, published, limit, start_after) ==
    /\ Free(calls[p])
    /\ LET c       == [IdleCall EXCEPT !.op = "list_events"]
           results == ListEvents(events, published, limit, start_after) IN
       calls' = [calls EXCEPT ![p] =
           [Finish(c, "ok") EXCEPT
               !.args = [published |-> published, limit |-> limit,
                         start_after |-> start_after, first |-> start_after],
               !.entries = results, !.next_id = NextId(results), !.seen = results]]
    /\ UNCHANGED <<events, rsvps, now, ncalls>>

\* list_events called for the next page: the same filter and limit, and the
\* cursor the last call returned.
FollowCursor(p) ==
    /\ calls[p].pc = "done"
    /\ calls[p].op = "list_events"
    /\ calls[p].next_id # Absent
    /\ LET c       == calls[p]
           results == ListEvents(events, c.args.published, c.args.limit, c.next_id) IN
       calls' = [calls EXCEPT ![p] =
           [c EXCEPT !.args.start_after = c.next_id,
                     !.entries = results, !.next_id = NextId(results),
                     !.seen = c.seen \o results]]
    /\ UNCHANGED <<events, rsvps, now, ncalls>>

\* ---------------------------------------------------------------- creation form
\* list_events(db, published=None, limit=100), Events_UI.py line 232.
FormListLimit == 100

\* len(user_events) >= 3, line 234.
EventLimit == 3

\* Lines 230-236 of show_event_creation_form, not in edit mode: list the
\* events, count those of the user, refuse at the limit.  The validation that
\* follows passes and the worker goes on to create_event.
SubmitForm(p, u, data) ==
    /\ Free(calls[p])
    /\ ncalls < MaxCalls
    /\ ncalls' = ncalls + 1
    /\ LET c           == [IdleCall EXCEPT !.op = "submit_form", !.user = u]
           all_events  == ListEvents(events, "None", FormListLimit, Absent)
           user_events == {k \in 1..Len(all_events) : events[all_events[k]].created_by = u} IN
       calls' = [calls EXCEPT ![p] =
           IF Cardinality(user_events) >= EventLimit
           THEN Finish(c, "LimitReached")
           ELSE [c EXCEPT !.pc = "fm_create", !.args = data]]
    /\ UNCHANGED <<events, rsvps, now>>

\* Line 274: create_event(db, event_payload, user_id) writes a document under
\* an id the store picks.
FormCreate(p) ==
    /\ calls[p].pc = "fm_create"
    /\ \E i \in DOMAIN events :
          /\ ~events[i].exists
          /\ events' = [events EXCEPT ![i] = NewEvent(calls[p].args, calls[p].user, now)]
    /\ calls' = [calls EXCEPT ![p] = Finish(calls[p], "ok")]
    /\ UNCHANGED <<rsvps, now, ncalls>>

\* ---------------------------------------------------------------- environment
\* Time passes.
Tick ==
    /\ now < MaxTime
    /\ now' = now + 1
    /\ UNCHANGED <<events, rsvps, calls, ncalls>>

\* ---------------------------------------------------------------- specifications
CreateStep(p) ==
    \/ \E u \in Users, e \in EventIds : CallCreate(p, u, e)
    \/ CreateQuery(p)
    \/ CreateTxnRead(p)
    \/ CreateTxnCommit(p)

CancelStep(p) ==
    \/ \E r \in 1..(Len(rsvps) + 1), u \in Users : CallCancel(p, r, u)
    \/ CancelGetEvent(p)
    \/ CancelTxnRead(p)
    \/ CancelTxnCommit(p)

\* Concurrent create_rsvp calls only, one call per worker.
NextCreate ==
    \E p \in Racers :
        \/ \E u \in Users, e \in EventIds : calls[p].pc = "idle" /\ CallCreate(p, u, e)
        \/ CreateQuery(p)
        \/ CreateTxnRead(p)
        \/ CreateTxnCommit(p)

SpecCreate == Init /\ [][NextCreate]_vars

\* The Reservation Engine: create_rsvp and cancel_rsvp calls in any interleaving.
NextRsvp ==
    \/ \E p \in Workers : CreateStep(p) \/ CancelStep(p)
    \/ Tick

SpecRsvp == Init /\ [][NextRsvp]_vars

\* A worker that has started a call runs it to its end: each of the call's
\* round trips is answered, and the store answers every commit.
Continue(p) ==
    \/ CreateQuery(p) \/ CreateTxnRead(p) \/ CreateTxnCommit(p)
    \/ CancelGetEvent(p) \/ CancelTxnRead(p) \/ CancelTxnCommit(p)

\* The Reservation Engine with workers that keep running.
SpecLive == SpecRsvp /\ \A p \in Workers : WF_vars(Continue(p))

\* No call is in flight.
Settled == \A p \in Procs : Free(calls[p])

\* The worker of the one-worker deployment.
Solo == CHOOSE p \in Procs : \A q \in Procs : p <= q

\* One request at a time: a single worker serves the calls one after another.
NextSeq ==
    \/ \E u \in Users, e \in EventIds : CallCreate(Solo, u, e)
    \/ \E r \in 1..(Len(rsvps) + 1), u \in Users : CallCancel(Solo, r, u)
    \/ CreateQuery(Solo) \/ CreateTxnRead(Solo) \/ CreateTxnCommit(Solo)
    \/ CancelGetEvent(Solo) \/ CancelTxnRead(Solo) \/ CancelTxnCommit(Solo)
    \/ Tick

SpecSeq == Init /\ [][NextSeq]_vars

\* One request at a time, check_user_rsvp among them.
NextCheck ==
    \/ NextSeq
    \/ \E u \in Users, e \in EventIds : CallCheck(Solo, e, u)

SpecCheck == Init /\ [][NextCheck]_vars

\* The stores list_events is called on: up to MaxEvents documents, named
\* 1..MaxEvents, created at one of two times, published or not.
ListIds == 1..MaxEvents

ListedDocs ==
    {NoEvent} \cup {NewEvent([start_time |-> Absent, published |-> pb, capacity |-> MaxCap], Owner, t) :
                        pb \in BOOLEAN, t \in 1..2}

InitList ==
    /\ events \in [ListIds -> ListedDocs]
    /\ rsvps = <<>>
    /\ now = 2
    /\ calls = [p \in Procs |-> IdleCall]
    /\ ncalls = 0

\* One call with any arguments, then the calls that follow its cursors.
NextList ==
    \/ \E published \in {"None", "True", "False"}, limit \in {Absent, 0, 1, 2},
          start_after \in {Absent} \cup ListIds :
          calls[Solo].pc = "idle" /\ CallListEvents(Solo, published, limit, start_after)
    \/ FollowCursor(Solo)

SpecList == InitList /\ [][NextList]_vars

\* The creation form in use by two users on an empty store, the submissions
\* served by the workers concurrently.
InitForm ==
    /\ events = [i \in ListIds |-> NoEvent]
    /\ rsvps = <<>>
    /\ now = 1
    /\ calls = [p \in Procs |-> IdleCall]
    /\ ncalls = 0

NextForm ==
    \/ \E p \in Workers :
          \/ \E u \in {"A", "B"}, data \in EventData : SubmitForm(p, u, data)
          \/ FormCreate(p)
    \/ Tick

SpecForm == InitForm /\ [][NextForm]_vars

\* The worker that serves the Event Directory's requests.
Desk == CHOOSE p \in Procs : \A q \in Procs : q <= p

\* The Reservation Engine together with the owner's use of the Event Directory.
Next ==
    \/ NextRsvp
    \/ \E e \in EventIds, updates \in UpdateDicts : UpdateEvent(Desk, e, updates, Owner)

Spec == Init /\ [][Next]_vars

\* The callers of the Event Directory: the owner and another user.
DirUsers == {Owner, "A"}

\* The Event Directory in use while one worker serves the reservation calls.
NextDir ==
    \/ NextSeq
    \/ \E e \in EventIds, u \in DirUsers :
          \/ \E data \in EventData : CreateEvent(Desk, e, data, u)
          \/ \E updates \in AnyUpdateDicts : UpdateEvent(Desk, e, updates, u)
          \/ \E flag \in BOOLEAN : SetPublished(Desk, e, flag, u)
          \/ DeleteEvent(Desk, e, u)

SpecDir == Init /\ [][NextDir]_vars

\* The owner deletes the event, or creates it again under the same id, while one
\* worker serves the reservation calls and the reads of the rsvps collection.
NextDeleted ==
    \/ NextSeq
    \/ \E u \in Users, e \in EventIds : CallCheck(Solo, e, u)
    \/ \E u \in Users : GetUserRsvps(Solo, u)
    \/ \E e \in EventIds : DeleteEvent(Desk, e, Owner)
    \/ \E e \in EventIds, data \in EventData : CreateEvent(Desk, e, data, Owner)

SpecDeleted == Init /\ [][NextDeleted]_vars

\* The stores get_user_rsvps is called on: up to MaxRsvps rsvps documents of
\* two users over two events, each event deleted, without start_time or with
\* one.
QueryEvents == {"E1", "E2"}

QueryRsvps ==
    UNION {[1..n -> [user_id : {"A", "B"}, event_id : QueryEvents,
                     status : {"active", "cancelled"}]] : n \in 0..MaxRsvps}

StoredEvent(rs, e, start_time) ==
    [exists |-> TRUE, capacity |-> MaxRsvps,
     rsvp_count |-> Cardinality({i \in 1..Len(rs) : rs[i].event_id = e /\ rs[i].status = "active"}),
     start_time |-> start_time, created_by |-> Owner, published |-> TRUE,
     created_at |-> 1, updated_at |-> 1]

InitQuery ==
    /\ rsvps \in QueryRsvps
    /\ \E starts \in [QueryEvents -> {NoKey, Absent} \cup Times] :
          events = [e \in QueryEvents |->
                       IF starts[e] = NoKey THEN NoEvent
                       ELSE StoredEvent(rsvps, e, starts[e])]
    /\ now = 1
    /\ calls = [p \in Procs |-> IdleCall]
    /\ ncalls = 0

NextQuery == \E u \in {"A", "B"} : GetUserRsvps(Solo, u)

SpecQuery == InitQuery /\ [][NextQuery]_vars

\* ---------------------------------------------------------------- properties
\* The ids of the active rsvps documents of event e.
ActiveFor(e) ==
    {i \in 1..Len(rsvps) : rsvps[i].event_id = e /\ rsvps[i].status = "active"}

Min(a, b) == IF a < b THEN a ELSE b

\* The calls that have ended, and those among them with outcome res.
DoneCalls == {p \in Procs : calls[p].pc = "done"}
DoneWith(res) == {p \in DoneCalls : calls[p].result = res}

\* C1. Capacity invariant: under every interleaving of concurrent create_rsvp
\* calls against an event with capacity C >= 1, the number of active rsvps
\* documents of the event is at most C in every reachable state.
C1_CapacityInvariant ==
    \A e \in EventIds :
        events[e].capacity >= 1 => Cardinality(ActiveFor(e)) <= events[e].capacity

\* Two callers race for the last seat: one has committed, the other's
\* transaction met the conflict and is about to run its body again.
C1_Witness ==
    \E e \in EventIds, p, q \in Procs :
        /\ events[e].capacity = 1
        /\ Cardinality(ActiveFor(e)) = 1
        /\ calls[p].pc = "done" /\ calls[p].result = "ok"
        /\ calls[q].pc = "cr_txn" /\ calls[q].attempt = 2

\* The done calls are one create_rsvp each, by pairwise distinct users, and
\* they are all the calls that were started.
DistinctCallers ==
    /\ Settled
    /\ ncalls = Cardinality(DoneCalls)
    /\ \A p \in DoneCalls : calls[p].op = "create"
    /\ \A p, q \in DoneCalls : p # q => calls[p].user # calls[q].user

\* C2 as stated. When N distinct users each issue one create_rsvp concurrently
\* against an event with capacity C >= 1 and rsvp_count 0, exactly min(C, N)
\* calls return a reservation and every other call fails with EventFull.
C2_Original ==
    DistinctCallers =>
        \A e \in EventIds :
            /\ Cardinality(DoneWith("ok")) = Min(events[e].capacity, Cardinality(DoneCalls))
            /\ DoneCalls = DoneWith("ok") \cup DoneWith("EventFull")

\* C2 as amended. Every call returns a reservation, fails with EventFull or
\* fails because the store gave up its transaction after MaxAttempts conflicts;
\* at most min(C, N) calls return a reservation, and exactly min(C, N) do when
\* no transaction was given up.
C2_ExactlyMinUnlessGivenUp ==
    DistinctCallers =>
        \A e \in EventIds :
            /\ DoneCalls = DoneWith("ok") \cup DoneWith("EventFull") \cup DoneWith("TxnFailed")
            /\ Cardinality(DoneWith("ok")) <= Min(events[e].capacity, Cardinality(DoneCalls))
            /\ DoneWith("TxnFailed") = {} =>
                   Cardinality(DoneWith("ok")) = Min(events[e].capacity, Cardinality(DoneCalls))

\* More callers than seats have all ended: the seats are taken and a caller
\* whose transaction was retried was turned away with EventFull.
C2_Witness ==
    /\ DistinctCallers
    /\ \E e \in EventIds : Cardinality(DoneCalls) > events[e].capacity
    /\ \E e \in EventIds : Cardinality(DoneWith("ok")) = events[e].capacity
    /\ \E p \in DoneWith("EventFull") : calls[p].attempt = 2

\* C3. Duplicate invariant: at most one active rsvps document exists for any
\* (user_id, event_id) pair in every reachable state.
C3_DuplicateInvariant ==
    \A u \in Users, e \in EventIds : Cardinality(ActiveRsvps(rsvps, u, e)) <= 1

\* C4. Counter consistency: once every create_rsvp and cancel_rsvp call has
\* completed, the event's rsvp_count equals the number of its active rsvps
\* documents.
C4_CounterConsistency ==
    Settled =>
        \A e \in EventIds :
            events[e].exists => Get(events[e].rsvp_count, 0) = Cardinality(ActiveFor(e))

\* The counter as the code reads it.
Count(ev) == Get(ev.rsvp_count, 0)

\* Worker p starts a call in this step.
Starts(p) == Free(calls[p]) /\ calls'[p] # calls[p]

\* The call of worker p returns or raises in this step.
Ends(p) == calls'[p].pc = "done" /\ calls'[p] # calls[p]

\* The store is left as it is.
StoreUnchanged == rsvps' = rsvps /\ events' = events

\* C5. In every reachable state, under any sequence of create_rsvp, cancel_rsvp
\* and owner update_event calls, an event with capacity > 0 has
\* rsvp_count <= capacity.
C5_CountWithinCapacity ==
    \A e \in EventIds :
        (events[e].exists /\ Get(events[e].capacity, 0) > 0)
            => Count(events[e]) <= events[e].capacity

\* C6. With one request served at a time: a create_rsvp of a user who holds an
\* active reservation for the event fails with RSVPAlreadyExists and leaves
\* the store unchanged, whether or not the event is full.
C6_DuplicateRejected ==
    [][\A p \in Procs :
          (/\ calls'[p].op = "create"
           /\ Ends(p)
           /\ ActiveRsvps(rsvps, calls'[p].user, calls'[p].event) # {})
          => (calls'[p].result = "RSVPAlreadyExists" /\ StoreUnchanged)]_vars

\* A second create_rsvp of a user with an active reservation has been refused
\* with RSVPAlreadyExists on an event that is full.
C6_Witness ==
    \E p \in Procs :
        /\ calls[p].pc = "done" /\ calls[p].op = "create"
        /\ calls[p].result = "RSVPAlreadyExists"
        /\ ActiveRsvps(rsvps, calls[p].user, calls[p].event) # {}
        /\ Count(events[calls[p].event]) >= events[calls[p].event].capacity

\* C7. A cancel_rsvp by a user other than the reservation's user fails with
\* CancellationNotAllowed and leaves the store unchanged; a reservation's
\* status is changed only by a call made with its own user_id.
C7_OnlyOwnerCancels ==
    [][/\ \A p \in Procs :
            (/\ Starts(p)
             /\ calls'[p].op = "cancel"
             /\ calls'[p].rsvp \in 1..Len(rsvps)
             /\ rsvps[calls'[p].rsvp].user_id # calls'[p].user)
            => (/\ calls'[p].pc = "done"
                /\ calls'[p].result = "CancellationNotAllowed"
                /\ StoreUnchanged)
       /\ \A i \in 1..Len(rsvps) :
            rsvps'[i].status # rsvps[i].status
            => \E p \in Procs :
                   /\ calls[p].op = "cancel" /\ calls[p].rsvp = i
                   /\ calls[p].user = rsvps[i].user_id
                   /\ Ends(p)]_vars

\* A user has tried to cancel another user's active reservation before the
\* event started and was refused.
C7_Witness ==
    \E p \in Procs :
        /\ calls[p].pc = "done" /\ calls[p].op = "cancel"
        /\ calls[p].result = "CancellationNotAllowed"
        /\ calls[p].rsvp \in 1..Len(rsvps)
        /\ rsvps[calls[p].rsvp].user_id # calls[p].user
        /\ rsvps[calls[p].rsvp].status = "active"
        /\ now <= events[rsvps[calls[p].rsvp].event_id].start_time

\* The call of worker p reads an existing event with a start_time and evaluates
\* the start-time guard of cancel_rsvp in this step.
AtStartGuard(p) ==
    /\ calls[p].pc = "cn_event"
    /\ calls'[p] # calls[p]
    /\ events[calls[p].event].exists
    /\ events[calls[p].event].start_time # Absent

\* The guard refuses the call.
LockedOut(p) ==
    /\ calls'[p].pc = "done"
    /\ calls'[p].result = "CancellationNotAllowed"
    /\ StoreUnchanged

\* C8 as stated. A cancel_rsvp by the owner on a reservation whose event has
\* start_time <= now, start_time = now included, fails with
\* CancellationNotAllowed and leaves the reservation and rsvp_count unchanged.
C8_Original ==
    [][\A p \in Procs :
          (AtStartGuard(p) /\ events[calls[p].event].start_time <= now)
          => LockedOut(p)]_vars

\* C8 as amended. The cancel_rsvp is refused when start_time < now; at
\* start_time = now, as before the start, the guard lets the call through to
\* its transaction.
C8_LockoutAfterStart ==
    [][\A p \in Procs :
          AtStartGuard(p)
          => IF events[calls[p].event].start_time < now
             THEN LockedOut(p)
             ELSE calls'[p].pc = "cn_txn" /\ StoreUnchanged]_vars

\* The owner of an active reservation has tried to cancel it after the event
\* started and was refused.
C8_Witness ==
    \E p \in Procs :
        /\ calls[p].pc = "done" /\ calls[p].op = "cancel"
        /\ calls[p].result = "CancellationNotAllowed"
        /\ calls[p].rsvp \in 1..Len(rsvps)
        /\ rsvps[calls[p].rsvp].user_id = calls[p].user
        /\ rsvps[calls[p].rsvp].status = "active"
        /\ events[calls[p].event].start_time < now

\* C9. Atomicity of create: a create_rsvp that returns has added exactly one
\* rsvps document and raised rsvp_count by exactly 1, both in its last step; a
\* create_rsvp that fails has changed nothing; and no other step of a call,
\* the re-executions of the transaction body included, changes the store.
C9_CreateAtomic ==
    [][/\ \A p \in Procs :
            (calls'[p].op = "create" /\ Ends(p))
            => IF calls'[p].result = "ok"
               THEN /\ rsvps' = Append(rsvps, [user_id |-> calls'[p].user,
                                               event_id |-> calls'[p].event,
                                               status |-> "active"])
                    /\ calls'[p].rsvp = Len(rsvps')
                    /\ events' = [events EXCEPT ![calls'[p].event].rsvp_count =
                                      Count(events[calls'[p].event]) + 1]
               ELSE StoreUnchanged
       /\ (\/ Len(rsvps') # Len(rsvps)
           \/ \E e \in EventIds : Count(events'[e]) > Count(events[e]))
          => \E p \in Procs :
                 calls'[p].op = "create" /\ Ends(p) /\ calls'[p].result = "ok"
       /\ \A p \in Procs :
            (/\ calls[p].op = "create"
             /\ calls'[p].pc # calls[p].pc
             /\ ~Ends(p))
            => StoreUnchanged]_vars

\* A create_rsvp whose transaction body was executed twice has returned its
\* reservation.
C9_Witness ==
    \E p \in Procs :
        /\ calls[p].pc = "done" /\ calls[p].op = "create"
        /\ calls[p].result = "ok" /\ calls[p].attempt = 2
        /\ rsvps[calls[p].rsvp].status = "active"

\* C10. Cancellation releases capacity. With one request served at a time on
\* an event of capacity 1: a create_rsvp of a user without a reservation fails
\* with EventFull while rsvp_count is 1 and succeeds, making rsvp_count 1,
\* while it is 0; a cancel_rsvp called before the start reaches its
\* transaction, and the transaction sets the status to cancelled and
\* rsvp_count to 0.
C10_CancelReleasesCapacity ==
    [][\A p \in Procs, e \in EventIds :
          events[e].capacity = 1 =>
            /\ (/\ calls'[p].op = "create" /\ calls'[p].event = e
                /\ Ends(p)
                /\ ActiveRsvps(rsvps, calls'[p].user, e) = {})
               => IF Count(events[e]) >= 1
                  THEN calls'[p].result = "EventFull" /\ StoreUnchanged
                  ELSE calls'[p].result = "ok" /\ Count(events'[e]) = 1
            /\ (/\ calls[p].pc = "cn_event" /\ calls[p].event = e
                /\ calls'[p] # calls[p]
                /\ now < events[e].start_time)
               => calls'[p].pc = "cn_txn"
            /\ (/\ calls[p].pc = "cn_commit" /\ calls[p].event = e
                /\ Ends(p))
               => /\ calls'[p].result = "ok"
                  /\ rsvps'[calls[p].rsvp].status = "cancelled"
                  /\ Count(events'[e]) = 0]_vars

\* The scenario has run to its end: the first user's reservation is cancelled,
\* the second user holds the seat, and rsvp_count is 1 again.
C10_Witness ==
    \E e \in EventIds, p \in Procs :
        /\ events[e].capacity = 1 /\ Count(events[e]) = 1
        /\ Len(rsvps) = 2
        /\ rsvps[1].status = "cancelled" /\ rsvps[2].status = "active"
        /\ rsvps[1].user_id # rsvps[2].user_id
        /\ calls[p].pc = "done" /\ calls[p].op = "create"
        /\ calls[p].rsvp = 2 /\ calls[p].result = "ok"

\* C11. Reservation lifecycle: an rsvps document is first written with status
\* active, a later step changes its status only from active to cancelled,
\* never from cancelled to active, and no step deletes a document or changes
\* its user or event; a successful create_rsvp always writes a document under
\* a new id, so re-reserving after a cancellation leaves the cancelled
\* document as it is.
C11_Lifecycle ==
    [][/\ Len(rsvps') \in {Len(rsvps), Len(rsvps) + 1}
       /\ \A i \in 1..Len(rsvps) :
            /\ rsvps'[i].user_id = rsvps[i].user_id
            /\ rsvps'[i].event_id = rsvps[i].event_id
            /\ \/ rsvps'[i].status = rsvps[i].status
               \/ rsvps[i].status = "active" /\ rsvps'[i].status = "cancelled"
       /\ Len(rsvps') > Len(rsvps) => rsvps'[Len(rsvps')].status = "active"
       /\ \A p \in Procs :
            (calls'[p].op = "create" /\ Ends(p) /\ calls'[p].result = "ok")
            => (calls'[p].rsvp = Len(rsvps) + 1 /\ Len(rsvps') = Len(rsvps) + 1)]_vars

\* A user has reserved, cancelled and reserved again: the cancelled document
\* is still there and the new reservation is a second document.
C11_Witness ==
    \E p \in Procs :
        /\ Len(rsvps) = 2
        /\ rsvps[1].user_id = rsvps[2].user_id
        /\ rsvps[1].event_id = rsvps[2].event_id
        /\ rsvps[1].status = "cancelled" /\ rsvps[2].status = "active"
        /\ calls[p].pc = "done" /\ calls[p].op = "create"
        /\ calls[p].rsvp = 2 /\ calls[p].result = "ok"

\* C12. An event whose capacity is 0 is unlimited: a create_rsvp that reads
\* capacity 0, in its pre-check or in its transaction, never fails with
\* EventFull, whatever rsvp_count is.
C12_ZeroCapacityUnlimited ==
    [][\A p \in Procs :
          (/\ calls[p].op = "create"
           /\ Ends(p)
           /\ \/ calls[p].pc = "cr_query" /\ calls[p].capacity = 0
              \/ /\ calls[p].pc = "cr_txn"
                 /\ events[calls[p].event].exists
                 /\ Get(events[calls[p].event].capacity, 0) = 0)
          => calls'[p].result # "EventFull"]_vars

\* The Event Directory operations that modify or delete an event.
OwnerOps == {"update_event", "delete_event", "publish_event", "unpublish_event"}

\* C13. An update_event, delete_event, publish_event or unpublish_event called
\* on an existing event with a user_id other than the event's created_by
\* fails with PermissionDenied and leaves the event document unchanged.
C13_NonOwnerDenied ==
    [][\A p \in Procs :
          (/\ Starts(p)
           /\ calls'[p].op \in OwnerOps
           /\ events[calls'[p].event].exists
           /\ events[calls'[p].event].created_by # calls'[p].user)
          => (/\ calls'[p].pc = "done"
              /\ calls'[p].result = "PermissionDenied"
              /\ events' = events)]_vars

\* A user has tried to delete another user's event, which holds reservations,
\* and was refused.
C13_Witness ==
    \E p \in Procs :
        /\ calls[p].pc = "done" /\ calls[p].op = "delete_event"
        /\ calls[p].result = "PermissionDenied"
        /\ events[calls[p].event].exists
        /\ events[calls[p].event].created_by # calls[p].user
        /\ Count(events[calls[p].event]) > 0

\* C14. rsvp_count is written only by the transactions of create_rsvp and
\* cancel_rsvp: an update_event, with whatever updates dict, a publish_event
\* or an unpublish_event by the owner leaves the event's rsvp_count as it is.
C14_OwnerKeepsCount ==
    [][\A p \in Procs :
          (/\ Starts(p)
           /\ calls'[p].op \in {"update_event", "publish_event", "unpublish_event"}
           /\ calls'[p].result = "ok")
          => Count(events'[calls'[p].event]) = Count(events[calls'[p].event])]_vars

\* C15. A create_rsvp fails with EventNotFound when the event document is
\* missing at its first read, and also when the document is missing at the
\* re-read inside the transaction, having been deleted after the pre-checks
\* passed; in both cases nothing is written to the store.
C15_EventNotFound ==
    [][\A p \in Procs :
          /\ (/\ Starts(p)
              /\ calls'[p].op = "create"
              /\ ~events[calls'[p].event].exists)
             => (/\ calls'[p].pc = "done"
                 /\ calls'[p].result = "EventNotFound"
                 /\ StoreUnchanged)
          /\ (/\ calls[p].pc = "cr_txn"
              /\ calls'[p] # calls[p]
              /\ ~events[calls[p].event].exists)
             => (/\ calls'[p].pc = "done"
                 /\ calls'[p].result = "EventNotFound"
                 /\ StoreUnchanged)]_vars

\* A create_rsvp passed its pre-checks, the owner deleted the event, and the
\* transaction's re-read ended the call with EventNotFound; no rsvps document
\* was written.
C15_Witness ==
    \E p, q \in Procs :
        /\ calls[p].pc = "done" /\ calls[p].op = "create"
        /\ calls[p].result = "EventNotFound" /\ calls[p].attempt >= 1
        /\ calls[q].pc = "done" /\ calls[q].op = "delete_event"
        /\ calls[q].result = "ok"
        /\ ~events[calls[p].event].exists
        /\ rsvps = <<>>

\* C16. An update_event by the owner leaves the event's created_by and
\* created_at as they are, whatever keys the updates dict carries, and sets
\* updated_at to the time of the call.
C16_UpdateKeepsOrigin ==
    [][\A p \in Procs :
          (/\ Starts(p)
           /\ calls'[p].op = "update_event"
           /\ calls'[p].result = "ok")
          => (/\ events'[calls'[p].event].created_by = events[calls'[p].event].created_by
              /\ events'[calls'[p].event].created_at = events[calls'[p].event].created_at
              /\ events'[calls'[p].event].updated_at = now)]_vars

\* The owner has updated the event some time after its creation: updated_at
\* is the time of the call, created_by and created_at are those of the
\* creation.
C16_Witness ==
    \E p \in Procs :
        /\ calls[p].pc = "done" /\ calls[p].op = "update_event"
        /\ calls[p].result = "ok" /\ calls[p].user = Owner
        /\ events[calls[p].event].created_by = Owner
        /\ events[calls[p].event].created_at = 1
        /\ events[calls[p].event].updated_at = now
        /\ now > 1

\* The ids of the active rsvps documents of user u whose event exists.
Listed(u) ==
    {i \in 1..Len(rsvps) : /\ rsvps[i].user_id = u
                           /\ rsvps[i].status = "active"
                           /\ events[rsvps[i].event_id].exists}

\* C17. get_user_rsvps(u) returns exactly one entry for each active rsvps
\* document of u whose event exists, each with the event's current document,
\* in ascending order of the event's start_time, the entries whose event has
\* no start_time last.
C17_UserRsvpsSorted ==
    \A p \in Procs :
        (calls[p].pc = "done" /\ calls[p].op = "get_user_rsvps")
        => LET out == calls[p].entries IN
           /\ calls[p].result = "ok"
           /\ Len(out) = Cardinality(Listed(calls[p].user))
           /\ {out[k].id : k \in 1..Len(out)} = Listed(calls[p].user)
           /\ \A k \in 1..Len(out) : out[k].event = events[rsvps[out[k].id].event_id]
           /\ \A k, l \in 1..Len(out) :
                k < l =>
                  \/ out[l].event.start_time = Absent
                  \/ /\ out[k].event.start_time # Absent
                     /\ out[k].event.start_time <= out[l].event.start_time

\* C18. With one request served at a time: check_user_rsvp(event, user)
\* returns True exactly when an rsvps document with status active exists for
\* the pair; so it returns False once the user's only reservation is
\* cancelled and True again once the user has reserved again.
C18_CheckReflectsActive ==
    \A p \in Procs :
        (calls[p].pc = "done" /\ calls[p].op = "check_user_rsvp")
        => (calls[p].result = "True"
            <=> \E i \in 1..Len(rsvps) :
                    /\ rsvps[i].user_id = calls[p].user
                    /\ rsvps[i].event_id = calls[p].event
                    /\ rsvps[i].status = "active")

\* A user whose only reservation was cancelled has asked and was told False.
C18_Witness ==
    \E p \in Procs :
        /\ calls[p].pc = "done" /\ calls[p].op = "check_user_rsvp"
        /\ calls[p].result = "False"
        /\ Len(rsvps) = 1
        /\ rsvps[1].user_id = calls[p].user
        /\ rsvps[1].event_id = calls[p].event
        /\ rsvps[1].status = "cancelled"

\* The user has reserved again after the cancellation and is told True.
C18_TrueAgain ==
    \E p \in Procs :
        /\ calls[p].pc = "done" /\ calls[p].op = "check_user_rsvp"
        /\ calls[p].result = "True"
        /\ Len(rsvps) = 2
        /\ rsvps[1].user_id = calls[p].user /\ rsvps[2].user_id = calls[p].user
        /\ rsvps[1].status = "cancelled" /\ rsvps[2].status = "active"

\* C19. A cancel_rsvp that succeeds sets the reservation's status to
\* cancelled and the event's rsvp_count to max(0, rsvp_count - 1), both in
\* its last step and nothing else; no other step of a cancel_rsvp changes the
\* store; and rsvp_count is a non-negative integer in every reachable state.
C19_CancelFloorsCount ==
    /\ [](\A e \in EventIds : events[e].rsvp_count \in Nat)
    /\ [][\A p \in Procs :
            /\ (calls[p].op = "cancel" /\ Ends(p))
               => IF calls'[p].result = "ok"
                  THEN /\ rsvps' = [rsvps EXCEPT ![calls[p].rsvp].status = "cancelled"]
                       /\ events' = [events EXCEPT ![calls[p].event].rsvp_count =
                                        IF events[calls[p].event].rsvp_count - 1 > 0
                                        THEN events[calls[p].event].rsvp_count - 1
                                        ELSE 0]
                  ELSE StoreUnchanged
            /\ (/\ calls[p].op = "cancel"
                /\ calls'[p].pc # calls[p].pc
                /\ ~Ends(p))
               => StoreUnchanged]_vars

\* Two cancel_rsvp calls on the same reservation have both succeeded: the
\* second found rsvp_count 0 and left it at 0.
C19_Witness ==
    \E p, q \in Procs :
        /\ p # q
        /\ calls[p].pc = "done" /\ calls[p].op = "cancel" /\ calls[p].result = "ok"
        /\ calls[q].pc = "done" /\ calls[q].op = "cancel" /\ calls[q].result = "ok"
        /\ calls[p].rsvp = calls[q].rsvp
        /\ Len(rsvps) = 1
        /\ rsvps[1].status = "cancelled"
        /\ events[calls[p].event].rsvp_count = 0

\* Worker p has made the second reservation and worker q has cancelled the
\* first, another user's; with the call that made the first reservation these
\* are all the calls there were.
CreateAndCancelDone(p, q) ==
    /\ p # q
    /\ ncalls = 3
    /\ Len(rsvps) = 2
    /\ rsvps[1].user_id # rsvps[2].user_id
    /\ calls[p].pc = "done" /\ calls[p].op = "create"
    /\ calls[p].result = "ok" /\ calls[p].rsvp = 2
    /\ calls[q].pc = "done" /\ calls[q].op = "cancel"
    /\ calls[q].result = "ok" /\ calls[q].rsvp = 1

\* C20. No lost update: when a create_rsvp of one user and a cancel_rsvp of
\* another user's active reservation have both succeeded on an event that
\* held that one reservation, in whatever interleaving and with whatever
\* retries of their transactions, rsvp_count is what it was before the two,
\* 1: the +1 and the -1 are both applied.
C20_NoLostUpdate ==
    \A p, q \in Procs :
        CreateAndCancelDone(p, q) => events[calls[p].event].rsvp_count = 1

\* The two calls ran concurrently: the cancel_rsvp met the create_rsvp's
\* commit as a conflict and ran its transaction body a second time.
C20_Witness ==
    \E p, q \in Procs :
        /\ CreateAndCancelDone(p, q)
        /\ calls[q].attempt = 2
        /\ rsvps[1].status = "cancelled" /\ rsvps[2].status = "active"

\* C21. Re-check inside the transaction: a create_rsvp that has passed the
\* capacity pre-check and whose transaction reads the event with
\* rsvp_count >= capacity fails with EventFull and writes nothing; and a
\* create_rsvp commits only on a count read in that attempt, which is the
\* event's count at the commit and is below capacity.
C21_RecheckInTransaction ==
    [][\A p \in Procs :
          /\ (/\ calls[p].pc = "cr_txn"
              /\ calls'[p] # calls[p]
              /\ events[calls[p].event].exists
              /\ Count(events[calls[p].event]) >= Get(events[calls[p].event].capacity, 0))
             => (/\ calls'[p].pc = "done"
                 /\ calls'[p].result = "EventFull"
                 /\ StoreUnchanged)
          /\ (/\ calls[p].op = "create"
              /\ Ends(p)
              /\ calls'[p].result = "ok")
             => (/\ calls[p].pc = "cr_commit"
                 /\ calls[p].snap_count = Count(events[calls[p].event])
                 /\ Count(events[calls[p].event]) < Get(events[calls[p].event].capacity, 0))]_vars

\* A caller passed the pre-check, another took the last seat, and the
\* caller's first read inside its transaction ended the call with EventFull.
C21_Witness ==
    \E e \in EventIds, p \in Procs :
        /\ calls[p].pc = "done" /\ calls[p].op = "create" /\ calls[p].event = e
        /\ calls[p].result = "EventFull" /\ calls[p].attempt = 1
        /\ Count(events[e]) = events[e].capacity
        /\ Cardinality(ActiveFor(e)) = events[e].capacity
        /\ ActiveRsvps(rsvps, calls[p].user, e) = {}

\* C22. cancel_rsvp applies its guards in a fixed order and the first one
\* that fails decides the error: an unknown rsvp_id gives RSVPNotFound;
\* otherwise a caller other than the reservation's user gives
\* CancellationNotAllowed, whatever the state of the parent event; otherwise a
\* missing parent event gives EventNotFound; otherwise an event whose
\* start_time is past gives CancellationNotAllowed. A call refused by a guard
\* leaves the store unchanged.
C22_GuardOrder ==
    [][\A p \in Procs :
          /\ (Starts(p) /\ calls'[p].op = "cancel")
             => /\ StoreUnchanged
                /\ IF calls'[p].rsvp \notin 1..Len(rsvps)
                   THEN calls'[p].pc = "done" /\ calls'[p].result = "RSVPNotFound"
                   ELSE IF rsvps[calls'[p].rsvp].user_id # calls'[p].user
                   THEN calls'[p].pc = "done" /\ calls'[p].result = "CancellationNotAllowed"
                   ELSE calls'[p].pc = "cn_event"
          /\ (calls[p].pc = "cn_event" /\ calls'[p] # calls[p])
             => /\ StoreUnchanged
                /\ IF ~events[calls[p].event].exists
                   THEN calls'[p].pc = "done" /\ calls'[p].result = "EventNotFound"
                   ELSE IF /\ events[calls[p].event].start_time # Absent
                           /\ events[calls[p].event].start_time < now
                   THEN calls'[p].pc = "done" /\ calls'[p].result = "CancellationNotAllowed"
                   ELSE calls'[p].pc = "cn_txn"]_vars

\* A user has tried to cancel another user's reservation whose event is
\* deleted: the refusal is CancellationNotAllowed, not EventNotFound.
C22_Witness ==
    \E p \in Procs :
        /\ calls[p].pc = "done" /\ calls[p].op = "cancel"
        /\ calls[p].result = "CancellationNotAllowed"
        /\ calls[p].rsvp \in 1..Len(rsvps)
        /\ rsvps[calls[p].rsvp].user_id # calls[p].user
        /\ rsvps[calls[p].rsvp].status = "active"
        /\ ~events[rsvps[calls[p].rsvp].event_id].exists

\* The outcomes of a create_rsvp or cancel_rsvp: the reservation, a domain
\* error, or the store's failure after its last attempt.
Outcomes ==
    {"ok", "EventNotFound", "RSVPAlreadyExists", "EventFull", "RSVPNotFound",
     "CancellationNotAllowed", "TxnFailed"}

\* C23. Every create_rsvp and cancel_rsvp call eventually returns, given
\* workers that keep running and a store that runs a conflicting body at most
\* MaxAttempts times: a call in flight leads to the call ended, and a call
\* that has ended has committed, raised a domain error or raised the store's
\* failure.
C23_CallsReturn ==
    /\ \A p \in Procs : (~Free(calls[p])) ~> (calls[p].pc = "done")
    /\ [](\A p \in Procs : calls[p].pc = "done" => calls[p].result \in Outcomes)

\* A call has ended with the store's failure: each of its attempts met a
\* conflict.
C23_Witness ==
    \E p \in Procs :
        /\ calls[p].pc = "done" /\ calls[p].result = "TxnFailed"
        /\ calls[p].attempt = MaxAttempts

\* The ids of the events the filter of call record c lets through.
Matching(c) == {i \in ListIds : Matches(events[i], c.args.published)}

\* The page of call record c is in descending created_at order, holds only
\* matching events, each once, all of them strictly after the cursor's event
\* when that exists, and leaves out no matching event before its last one:
\* an event is left out only behind a full page of n.
PageInOrder(c, n) ==
    LET page == c.entries IN
    /\ \A k \in 1..Len(page) : page[k] \in Matching(c)
    /\ \A k, l \in 1..Len(page) : k < l => Before(events, page[k], page[l])
    /\ \A k \in 1..Len(page) :
          (c.args.start_after # Absent /\ events[c.args.start_after].exists)
          => Before(events, c.args.start_after, page[k])
    /\ \A i \in Matching(c) :
          (/\ \A k \in 1..Len(page) : page[k] # i
           /\ (c.args.start_after # Absent /\ events[c.args.start_after].exists)
              => Before(events, c.args.start_after, i))
          => /\ \A k \in 1..Len(page) : Before(events, page[k], i)
             /\ Len(page) = n

\* What C24 says of call record c, for a page of at most n events.
ListedAsClaimed(c, n) ==
    /\ PageInOrder(c, n)
    /\ Len(c.entries) <= n
    /\ c.next_id = (IF c.entries = <<>> THEN Absent ELSE c.entries[Len(c.entries)])
    /\ (c.args.first = Absent /\ c.entries = <<>>)
       => /\ {c.seen[k] : k \in 1..Len(c.seen)} = Matching(c)
          /\ Len(c.seen) = Cardinality(Matching(c))

OwnedBy(u) == {i \in DOMAIN events : events[i].exists /\ events[i].created_by = u}

\* C25. Per-user event limit: under any sequence of submissions of the
\* creation form, two submissions of one user served concurrently by
\* different workers included, no user owns more than 3 events.
C25_EventLimit ==
    \A u \in {"A", "B"} : Cardinality(OwnedBy(u)) <= EventLimit

\* C26. Cancel is idempotent on the counter: a cancel_rsvp on a reservation
\* whose status is already cancelled does not change the event's rsvp_count,
\* so cancelling one reservation several times decrements rsvp_count once.
C26_CancelIdempotent ==
    [][\A p \in Procs :
          (/\ calls[p].op = "cancel"
           /\ Ends(p)
           /\ calls[p].rsvp \in 1..Len(rsvps)
           /\ rsvps[calls[p].rsvp].status = "cancelled")
          => \A e \in EventIds : Count(events'[e]) = Count(events[e])]_vars

\* C27. An event created by create_event from a payload that carries a
\* capacity C >= 1 is reservable: the stored event has capacity C, and while
\* the event is as created and holds no reservation a create_rsvp on it does
\* not fail with EventFull.
C27_CreatedEventReservable ==
    [][\A p \in Procs :
          /\ (Starts(p) /\ calls'[p].op = "create_event")
             => events'[calls'[p].event].capacity = calls'[p].args.capacity
          /\ (/\ calls[p].op = "create" /\ Ends(p)
              /\ calls[Desk].pc = "done" /\ calls[Desk].op = "create_event"
              /\ calls[Desk].event = calls[p].event
              /\ Count(events[calls[p].event]) = 0)
             => calls'[p].result # "EventFull"]_vars

\* C28. Event ownership is stable: an Event Directory call (create_event with
\* the event's id included) made on an existing event by a user other than its
\* created_by leaves the event document, its created_by, its other fields and
\* its rsvp_count, as it was.
C28_OwnershipStable ==
    [][\A p \in Procs :
          (/\ Starts(p)
           /\ calls'[p].op \in OwnerOps \cup {"create_event"}
           /\ events[calls'[p].event].exists
           /\ calls'[p].user # events[calls'[p].event].created_by)
          => events'[calls'[p].event] = events[calls'[p].event]]_vars

\* The active rsvps documents whose event document has been deleted.
Orphaned == {r \in 1..Len(rsvps) : /\ rsvps[r].status = "active"
                                   /\ ~events[rsvps[r].event_id].exists}

\* C29. While the event deleted by its owner is gone, its active rsvps documents
\* stay as they are: no step modifies them, a cancel_rsvp of such a document by
\* its user ends with EventNotFound, get_user_rsvps does not list it, and
\* check_user_rsvp returns True for its (event_id, user_id).
C29_OrphanedRsvps ==
    [][\A r \in Orphaned :
          /\ rsvps'[r] = rsvps[r]
          /\ \A p \in Procs :
                /\ (/\ Ends(p) /\ calls'[p].op = "cancel" /\ calls'[p].rsvp = r
                    /\ calls'[p].user = rsvps[r].user_id)
                   => calls'[p].result = "EventNotFound"
                /\ (Starts(p) /\ calls'[p].op = "get_user_rsvps")
                   => \A i \in 1..Len(calls'[p].entries) : calls'[p].entries[i].id # r
                /\ (/\ Starts(p) /\ calls'[p].op = "check_user_rsvp"
                    /\ calls'[p].event = rsvps[r].event_id
                    /\ calls'[p].user = rsvps[r].user_id)
                   => calls'[p].result = "True"]_vars

\* C30. The guards of cancel_rsvp hold when its transaction commits: in the step
\* that commits a cancellation the parent event exists and its counter goes
\* down by one (not below 0) together with the status; the reservation of an
\* event deleted after the pre-check is not marked cancelled.
C30_GuardsAtCommit ==
    [][\A p \in Procs :
          (/\ calls[p].pc = "cn_commit"
           /\ calls'[p].pc = "done"
           /\ calls'[p].result = "ok")
          => /\ events[calls[p].event].exists
             /\ events'[calls[p].event].exists
             /\ Count(events'[calls[p].event]) =
                   IF Count(events[calls[p].event]) - 1 > 0
                   THEN Count(events[calls[p].event]) - 1
                   ELSE 0]_vars

====
